---- MODULE Spec2Model ----
(***************************************************************************)
(* Model of the reconciliation core of inventory-scanner:                  *)
(*   - runners/utils.py            iou_2d                                   *)
(*   - dataprocessing/matchdetections.py   MatchDetections                  *)
(*   - dataprocessing/processthread.py     DataThread                       *)
(*   - dataprocessing/processcount.py      ProcessCount.process             *)
(*                                                                         *)
(* Conventions.  Python indices are 0-based, TLA+ sequences are 1-based:   *)
(* index i of the model is index i-1 of the code.  A float produced by     *)
(* iou_2d is kept as the exact fraction <<num, den>> (den > 0); the boxes  *)
(* of the model have small integer coordinates, for which two fractions    *)
(* are equal, or ordered, exactly when the floats of the code are.         *)
(*                                                                         *)
(* The matchers that process() constructs use the metric "iou"; the       *)
(* metric "centerpoint" is modelled on boxes whose distances are whole     *)
(* numbers of units.  Writing of the CSV and PNG files is left out; the    *)
(* in-place rescaling of the boxes by visualize is kept.                   *)
(***************************************************************************)
EXTENDS Integers, Sequences, FiniteSets, TLC

\* ------------------------------------------------------------------ bounds
MaxGT == 3
MaxDT == 3
\* Calls of match() made on one matcher object.
MaxCalls == 2
\* Texts handed to one CategorizeText object.
MaxTexts == 3
\* Package boxes, and text boxes, of one direct aggregation.
MaxAgg == 2
\* Ground truths, and predictions, of a matcher with a metric argument.
MaxMetric == 2
\* Largest coordinate of the boxes iou_2d is applied to pair by pair.
MaxCoord == 2
\* Ground truths, and predictions, of the matchers built on reordered inputs.
MaxPerm == 2
\* Ground truths, and predictions, of the matchers run under fairness.
MaxLive == 2
\* Ground truths, and predictions, of the matchers with metric "centerpoint".
MaxCenter == 2

\* ------------------------------------------------------------- pure helpers
Max2(a, b) == IF a >= b THEN a ELSE b
Min2(a, b) == IF a <= b THEN a ELSE b
Abs(a) == IF a >= 0 THEN a ELSE 0 - a

\* The value 0. of numpy.zeros and of iou_2d's "no overlap" return.
Zero == <<0, 1>>

\* a > b on fractions with positive denominators.
Gt(a, b) == a[1] * b[2] > b[1] * a[2]

\* a == b on fractions with positive denominators.
Eq(a, b) == a[1] * b[2] = b[1] * a[2]

iou_2d_union_sum(box_a, box_b) ==
    LET x_a == Max2(box_a[1], box_b[1])
        y_a == Max2(box_a[2], box_b[2])
        x_b == Min2(box_a[3], box_b[3])
        y_b == Min2(box_a[4], box_b[4])
        inter_area == Max2(x_b - x_a, 0) * Max2(y_b - y_a, 0)
        box_a_area == Abs((box_a[3] - box_a[1]) * (box_a[4] - box_a[2]))
        box_b_area == Abs((box_b[3] - box_b[1]) * (box_b[4] - box_b[2]))
    IN  IF inter_area = 0
        THEN Zero
        ELSE <<inter_area, box_a_area + box_b_area>>

iou_2d_unclamped(box_a, box_b) ==
    LET x_a == Max2(box_a[1], box_b[1])
        y_a == Max2(box_a[2], box_b[2])
        x_b == Min2(box_a[3], box_b[3])
        y_b == Min2(box_a[4], box_b[4])
        inter_area == (x_b - x_a) * (y_b - y_a)
        box_a_area == Abs((box_a[3] - box_a[1]) * (box_a[4] - box_a[2]))
        box_b_area == Abs((box_b[3] - box_b[1]) * (box_b[4] - box_b[2]))
    IN  IF inter_area = 0
        THEN Zero
        ELSE <<inter_area, box_a_area + box_b_area - inter_area>>

\* iou_2d(box_a, box_b) for boxes [xmin, ymin, xmax, ymax].
iou_2d(box_a, box_b) ==
    LET x_a == Max2(box_a[1], box_b[1])
        y_a == Max2(box_a[2], box_b[2])
        x_b == Min2(box_a[3], box_b[3])
        y_b == Min2(box_a[4], box_b[4])
        inter_area == Max2(x_b - x_a, 0) * Max2(y_b - y_a, 0)
        box_a_area == Abs((box_a[3] - box_a[1]) * (box_a[4] - box_a[2]))
        box_b_area == Abs((box_b[3] - box_b[1]) * (box_b[4] - box_b[2]))
    IN  IF inter_area = 0
        THEN Zero
        ELSE <<inter_area, box_a_area + box_b_area - inter_area>>

\* A coordinate c of the model stands for the float c / Unit of the code;
\* iou_2d does not depend on the unit, the distances of localize_distance do.
Unit == 8

\* minkowski_distance(center_a, center_b) with p = 2, squared, for points
\* of two and of four coordinates (lines 125-154).
minkowski_distance_sq(center_a, center_b) ==
    LET d(k) == (center_a[k] - center_b[k]) * (center_a[k] - center_b[k])
    IN  IF Len(center_a) = 2 THEN d(1) + d(2)
        ELSE d(1) + d(2) + d(3) + d(4)

\* The square of diagonal (lines 204-206).
diagonal_sq(box_a, box_b) ==
    Min2(minkowski_distance_sq(SubSeq(box_a, 1, 2), SubSeq(box_a, 3, 4)),
         minkowski_distance_sq(SubSeq(box_b, 1, 2), SubSeq(box_b, 3, 4)))

\* Line 208 with diagonal = 0.: the quotient is inf or nan and int() raises.
localize_distance_raises(box_a, box_b) ==
    IF diagonal_sq(box_a, box_b) # 0 THEN "none"
    ELSE IF minkowski_distance_sq(box_a, box_b) = 0 THEN "ValueError"
    ELSE "OverflowError"

\* The root of a square number.
sqrt(n) == CHOOSE r \in 0..n : r * r = n

\* localize_distance (lines 204-211) for boxes with diagonal > 0: the
\* distance as a fraction.  int(x) <= leniency_factor exactly when
\* x < leniency_factor + 1; the boxes of the model have distances that are
\* whole numbers of units.
localize_distance(box_a, box_b, leniency_factor) ==
    LET center_distance_sq == minkowski_distance_sq(box_a, box_b)
    IN  IF center_distance_sq
             < (leniency_factor + 1) * (leniency_factor + 1)
                 * diagonal_sq(box_a, box_b)
        THEN <<sqrt(center_distance_sq), Unit>>
        ELSE <<1, 1>>

\* MatchDetections.leniency_factor: the default of __init__ (line 62), which
\* no caller overrides.
leniency_factor == 1

\* 1 - distance (line 442).
one_minus(distance) == <<distance[2] - distance[1], distance[2]>>

\* The boxes of the matchers with metric "centerpoint": four squares along
\* a diagonal and a degenerate box.
CenterBoxes ==
    { <<0, 0, 4, 4>>, <<1, 1, 5, 5>>, <<3, 3, 7, 7>>, <<5, 5, 9, 9>>,
      <<2, 2, 2, 2>> }

\* The boxes a detector may return in the model.
BoxPool ==
    { <<0, 0, 4, 2>>, <<2, 0, 6, 2>>, <<1, 0, 7, 2>>, <<6, 1, 8, 3>> }

\* The boxes of the matchers constructed with a metric argument.
MetricBoxes == { <<0, 0, 4, 2>>, <<2, 0, 6, 2>>, <<6, 1, 8, 3>> }

\* All sequences over S of length at most n.
SeqUpTo(S, n) == UNION { [1..k -> S] : k \in 0..n }

argmin(row) ==
    CHOOSE i \in DOMAIN row :
        /\ \A j \in DOMAIN row : ~Gt(row[i], row[j])
        /\ \A j \in DOMAIN row : j < i => Gt(row[j], row[i])

\* First index holding the largest value (numpy.argmax); the value itself
\* is Python's max() of the row.
argmax(row) ==
    CHOOSE i \in DOMAIN row :
        /\ \A j \in DOMAIN row : ~Gt(row[j], row[i])
        /\ \A j \in DOMAIN row : j < i => Gt(row[i], row[j])

argwhere_any(row) == DOMAIN row

\* Indices of the row with a value != 0, ascending (numpy.argwhere).
argwhere_nonzero(row) == { j \in DOMAIN row : ~Eq(row[j], Zero) }

\* list.remove(x): drops the first element equal to x (x must be present).
RECURSIVE list_remove(_, _)
list_remove(lst, x) ==
    IF lst = <<>> THEN <<>>
    ELSE IF Head(lst) = x THEN Tail(lst)
    ELSE <<Head(lst)>> \o list_remove(Tail(lst), x)

InList(lst, x) == \E i \in DOMAIN lst : lst[i] = x

\* ------------------------------------------------------------------- state
VARIABLES
    ground_truths,              \* MatchDetections._ground_truths
    predictions,                \* MatchDetections._predictions
    group,                      \* MatchDetections.group
    metric,                     \* MatchDetections.metric
    iou_list,                   \* MatchDetections._iou_list
    iou_grid,                   \* MatchDetections._iou_grid
    index_matches,              \* MatchDetections._index_matches, <<dti, gti>>
    index_unmatched_dt,         \* MatchDetections._index_unmatched_dt
    index_unmatched_gt,         \* MatchDetections._index_unmatched_gt
    index_unmatched_dt_grouped, \* MatchDetections._index_unmatched_dt_grouped
    mpc,                        \* position of the thread of control in match()
    gti_loop,                   \* loop variable gti of match()
    call,                       \* arguments <<dti, gti, iou>> of compare_matches
    pre_gti,                \* local pre_gti of compare_matches
    calls,                      \* number of match() calls made so far
    first_matches,              \* index_matches when the first call returned
    raised                      \* exception that left match(), or "none"

matcher_vars ==
    <<ground_truths, predictions, group, metric, iou_list, iou_grid,
      index_matches,
      index_unmatched_dt, index_unmatched_gt, index_unmatched_dt_grouped,
      mpc, gti_loop, call, pre_gti, calls, first_matches, raised>>

\* ProcessCount.process and the DataThread objects of one frame.
VARIABLES
    ppc,                \* position of the caller in process()
    detect_code,        \* argument detect_code of process()
    results_out,        \* ProcessCount.results_out is not None
    show,               \* ProcessCount.show
    thr,                \* state of each DataThread of the frame
    ret,                \* DataThread._return of each thread
    detections,         \* local detections of TextDetector.detect
    package_boxes,      \* local package_boxes of process()
    label_boxes,        \* local code_boxes / text_boxes of process()
    texts,              \* local texts of process()
    categories,         \* CategorizeText.categories, in insertion order
    collected_packages, \* local collected_packages of process()
    shelf_id,           \* ProcessCount.shelf_id
    result,             \* what process() returned
    waited              \* time the caller has been blocked in the current join

proc_vars ==
    <<ppc, detect_code, results_out, show, thr, ret, detections,
      package_boxes, label_boxes, texts, categories, collected_packages,
      shelf_id, result, waited>>

vars == <<matcher_vars, proc_vars>>

\* The DataThread objects process() creates: package_thread,
\* identification_thread or text_thread, match_code_thread or
\* match_text_thread, text_classifier_thread.
Roles == {"package", "second", "match", "classifier"}

\* DataThread._return before the target has returned (None, line 28), and
\* the tuple a detector returns.
NoneValue == [is_none |-> TRUE, boxes |-> <<>>, texts |-> <<>>]
Returns(b, t) == [is_none |-> FALSE, boxes |-> b, texts |-> t]

\* What easyocr's Reader.readtext handed to TextDetector.detect (line 57):
\* nothing yet, None, or a list of detections.  A detection is kept as
\* [box, text, score]: the box already as [xmin, ymin, xmax, ymax], the text
\* as it is after re.sub, lower() and the speller (lines 64-66), the score
\* in hundredths.
NoReading == [read |-> FALSE, is_none |-> FALSE, items |-> <<>>]
ReadNone == [read |-> TRUE, is_none |-> TRUE, items |-> <<>>]
Reading(items) == [read |-> TRUE, is_none |-> FALSE, items |-> items]

\* ProcessCount.__init__ (lines 98-101); no frame is being processed.
ProcessCount_init(out, shw) ==
    /\ ppc = "idle"
    /\ detect_code = FALSE
    /\ results_out = out
    /\ show = shw
    /\ thr = [r \in Roles |-> "none"]
    /\ ret = [r \in Roles |-> NoneValue]
    /\ detections = NoReading
    /\ package_boxes = <<>>
    /\ label_boxes = <<>>
    /\ texts = <<>>
    /\ categories = <<>>
    /\ collected_packages = <<>>
    /\ shelf_id = 0
    /\ result = "none"
    /\ waited = 0

NoCall == <<0, 0, Zero>>

MatchDetections_init_no_unmatched(gts, dts, grp) ==
    [ ground_truths |-> gts,
      predictions |-> dts,
      group |-> grp,
      metric |-> "iou",
      iou_list |-> [d \in 1..Len(dts) |-> Zero],
      iou_grid |-> [g \in 1..Len(gts) |-> [d \in 1..Len(dts) |-> Zero]],
      index_matches |-> <<>>,
      index_unmatched_dt |-> <<>>,
      index_unmatched_gt |-> <<>>,
      index_unmatched_dt_grouped |-> <<>> ]

\* MatchDetections.__init__ (lines 68-92): the fields of a freshly
\* constructed matcher.
MatchDetections_init(gts, dts, grp) ==
    [ ground_truths |-> gts,
      predictions |-> dts,
      group |-> grp,
      metric |-> "iou",
      iou_list |-> [d \in 1..Len(dts) |-> Zero],
      iou_grid |-> [g \in 1..Len(gts) |-> [d \in 1..Len(dts) |-> Zero]],
      index_matches |-> <<>>,
      index_unmatched_dt |-> [i \in 1..Len(dts) |-> i],
      index_unmatched_gt |-> [i \in 1..Len(gts) |-> i],
      index_unmatched_dt_grouped |-> <<>> ]

\* The matcher variables hold the object o; mpc is "new" for an object on
\* which match() has not been called.
MatcherIs(o) ==
    /\ ground_truths = o.ground_truths
    /\ predictions = o.predictions
    /\ group = o.group
    /\ metric = o.metric
    /\ iou_list = o.iou_list
    /\ iou_grid = o.iou_grid
    /\ index_matches = o.index_matches
    /\ index_unmatched_dt = o.index_unmatched_dt
    /\ index_unmatched_gt = o.index_unmatched_gt
    /\ index_unmatched_dt_grouped = o.index_unmatched_dt_grouped
    /\ gti_loop = 0
    /\ call = NoCall
    /\ pre_gti = 0
    /\ calls = 0
    /\ first_matches = <<>>
    /\ raised = "none"

\* A matcher constructed on inputs drawn from the box pool; match() is
\* called on it directly.
Init ==
    /\ \E gts \in SeqUpTo(BoxPool, MaxGT), dts \in SeqUpTo(BoxPool, MaxDT),
          grp \in BOOLEAN :
            MatcherIs(MatchDetections_init(gts, dts, grp))
    /\ mpc = "new"
    /\ ProcessCount_init(FALSE, FALSE)

matcher_fields ==
    <<ground_truths, predictions, group, metric>>

\* ------------------------------------------------------------ match(), 310-342
\* Lines 325-328: the empty-input return, else the first iteration of the
\* loop over the ground truths.
match_begin ==
    /\ calls' = calls + 1
    /\ IF Len(ground_truths) = 0 \/ Len(predictions) = 0
       THEN /\ mpc' = "done"
            /\ gti_loop' = gti_loop
            /\ first_matches' = IF calls = 0 THEN index_matches
                                ELSE first_matches
       ELSE /\ mpc' = "row"
            /\ gti_loop' = 1
            /\ first_matches' = first_matches
    /\ UNCHANGED <<matcher_fields, iou_list, iou_grid, index_matches,
                   index_unmatched_dt, index_unmatched_gt,
                   index_unmatched_dt_grouped, call, pre_gti, raised>>

\* The first call of match() on the object.
match_enter ==
    /\ mpc = "new"
    /\ match_begin
    /\ UNCHANGED proc_vars

\* store_metric (lines 436-449): a metric other than "iou" and "centerpoint"
\* raises ValueError.
store_metric_raises(m) == m \notin {"iou", "centerpoint"}

\* store_metric (lines 436-446): the value written to iou_grid[gti][dti].
store_metric(gt, dt) ==
    IF metric = "iou"
    THEN iou_2d(dt, gt)
    ELSE one_minus(localize_distance(dt, gt, leniency_factor))

\* The exception localize_distance raises in store_metric, or "none".
store_metric_error(gt, dt) ==
    IF metric = "centerpoint" THEN localize_distance_raises(dt, gt)
    ELSE "none"

\* Lines 328-337: one iteration of the loop up to the call of
\* compare_matches: store_metric for every prediction, the grouped record,
\* numpy.argmax and max of the row.  With an unknown metric the first
\* store_metric of the first iteration raises, before any cell is written;
\* with a raise in localize_distance the cells before it are written.
match_row ==
    /\ mpc = "row"
    /\ IF store_metric_raises(metric)
       THEN /\ mpc' = "raised"
            /\ raised' = "ValueError"
            /\ UNCHANGED <<iou_grid, index_unmatched_dt_grouped, call>>
       ELSE IF \E dti \in 1..Len(predictions) :
                 store_metric_error(ground_truths[gti_loop],
                                    predictions[dti]) # "none"
       THEN /\ LET gti == gti_loop
                   gt == ground_truths[gti]
                   bad == CHOOSE dti \in 1..Len(predictions) :
                            /\ store_metric_error(gt, predictions[dti]) # "none"
                            /\ \A d \in 1..(dti - 1) :
                                  store_metric_error(gt, predictions[d]) = "none"
               IN  /\ iou_grid' =
                         [iou_grid EXCEPT ![gti] =
                             [dti \in 1..Len(predictions) |->
                                 IF dti < bad
                                 THEN store_metric(gt, predictions[dti])
                                 ELSE iou_grid[gti][dti]]]
                   /\ raised' = store_metric_error(gt, predictions[bad])
            /\ mpc' = "raised"
            /\ UNCHANGED <<index_unmatched_dt_grouped, call>>
       ELSE /\ LET gti == gti_loop
                   row == [dti \in 1..Len(predictions) |->
                              store_metric(ground_truths[gti],
                                           predictions[dti])]
                   dti == argmax(row)
               IN  /\ iou_grid' = [iou_grid EXCEPT ![gti] = row]
                   /\ index_unmatched_dt_grouped' =
                         IF group
                         THEN Append(index_unmatched_dt_grouped,
                                     argwhere_nonzero(row))
                         ELSE index_unmatched_dt_grouped
                   /\ call' = <<dti, gti, row[dti]>>
            /\ mpc' = "cmp"
            /\ raised' = raised
    /\ UNCHANGED <<matcher_fields, iou_list, index_matches, index_unmatched_dt,
                   index_unmatched_gt, gti_loop, pre_gti, calls,
                   first_matches>>
    /\ UNCHANGED proc_vars

\* compare_matches has returned to the loop of match(): next ground truth,
\* or the derivation of the unmatched lists.
compare_return ==
    IF gti_loop < Len(ground_truths)
    THEN mpc' = "row" /\ gti_loop' = gti_loop + 1 /\ call' = NoCall
    ELSE mpc' = "derive" /\ gti_loop' = gti_loop /\ call' = NoCall

rematch_dropped(g, dti) ==
    /\ iou_grid' = [iou_grid EXCEPT ![g][dti] = Zero]
    /\ compare_return

rematch_first(g, dti) ==
    LET grid == [iou_grid EXCEPT ![g][dti] = Zero]
        dti2 == IF argwhere_nonzero(grid[g]) = {} THEN 1
                ELSE CHOOSE j \in argwhere_nonzero(grid[g]) :
                        \A k \in argwhere_nonzero(grid[g]) : j <= k
        iou2 == grid[g][dti2]
    IN  /\ iou_grid' = grid
        /\ IF Gt(iou2, Zero)
           THEN mpc' = "cmp" /\ call' = <<dti2, g, iou2>> /\ gti_loop' = gti_loop
           ELSE compare_return

rematch_kept(g, dti) ==
    LET grid == iou_grid
        dti2 == argmax(grid[g])
        iou2 == grid[g][dti2]
    IN  /\ iou_grid' = grid
        /\ IF Gt(iou2, Zero)
           THEN mpc' = "cmp" /\ call' = <<dti2, g, iou2>> /\ gti_loop' = gti_loop
           ELSE compare_return

\* Lines 381-385 and 388-392: cell (g, dti) is zeroed, then g is rematched
\* to the best remaining cell of its row if that cell is > 0.  The recursive
\* call is the last statement of each branch, so the callee's arguments
\* replace the caller's.
rematch(g, dti) ==
    LET grid == [iou_grid EXCEPT ![g][dti] = Zero]
        dti2 == argmax(grid[g])
        iou2 == grid[g][dti2]
    IN  /\ iou_grid' = grid
        /\ IF Gt(iou2, Zero)
           THEN mpc' = "cmp" /\ call' = <<dti2, g, iou2>> /\ gti_loop' = gti_loop
           ELSE compare_return

\* Line 375: the new claim on dti beats the recorded one.
better_or_equal(iou, dti) == ~Gt(iou_list[dti], iou)
better_never(iou, dti) == FALSE
better_reversed(iou, dti) == Gt(iou_list[dti], iou)
better(iou, dti) == Gt(iou, iou_list[dti])

\* Line 371.
twice_matched_by_gt(dti) == SelectSeq(index_matches, LAMBDA m : m[2] = dti)
twice_matched(dti) == SelectSeq(index_matches, LAMBDA m : m[1] = dti)

\* Lines 371-376, 386-399: entry of compare_matches.  The replacing branch
\* stops after the removal of the old pair (line 376).
compare_matches ==
    /\ mpc = "cmp"
    /\ LET dti == call[1]
           gti == call[2]
           iou == call[3]
           tm  == twice_matched(dti)
       IN  IF Len(tm) = 1
           THEN LET old_gti == tm[1][2]
                IN  IF better(iou, dti)
                    THEN /\ index_matches' =
                               list_remove(index_matches, <<dti, old_gti>>)
                         /\ pre_gti' = old_gti
                         /\ mpc' = "replace"
                         /\ UNCHANGED <<iou_list, iou_grid, gti_loop, call,
                                        raised>>
                    ELSE /\ rematch(gti, dti)
                         /\ UNCHANGED <<index_matches, iou_list, pre_gti,
                                        raised>>
           ELSE IF Len(tm) = 0
           THEN /\ IF Gt(iou, Zero)
                   THEN /\ iou_list' = [iou_list EXCEPT ![dti] = iou]
                        /\ index_matches' = Append(index_matches, <<dti, gti>>)
                   ELSE UNCHANGED <<iou_list, index_matches>>
                /\ compare_return
                /\ UNCHANGED <<iou_grid, pre_gti, raised>>
           ELSE /\ mpc' = "raised"
                /\ raised' = "IndexError"
                /\ UNCHANGED <<index_matches, iou_list, iou_grid, gti_loop,
                               call, pre_gti>>
    /\ UNCHANGED <<matcher_fields, index_unmatched_dt, index_unmatched_gt,
                   index_unmatched_dt_grouped, calls, first_matches>>
    /\ UNCHANGED proc_vars

\* Lines 377-385: the rest of the replacing branch.
compare_replace ==
    /\ mpc = "replace"
    /\ LET dti == call[1]
           gti == call[2]
           iou == call[3]
       IN  /\ iou_list' = [iou_list EXCEPT ![dti] = iou]
           /\ index_matches' = Append(index_matches, <<dti, gti>>)
           /\ rematch(pre_gti, dti)
    /\ pre_gti' = 0
    /\ UNCHANGED <<matcher_fields, index_unmatched_dt, index_unmatched_gt,
                   index_unmatched_dt_grouped, calls, first_matches, raised>>
    /\ UNCHANGED proc_vars

RECURSIVE derive_unmatched_dt_only(_, _, _, _)
derive_unmatched_dt_only(matches, i, udt, ugt) ==
    IF i > Len(matches)
    THEN [dt |-> udt, gt |-> ugt, err |-> "none"]
    ELSE derive_unmatched_dt_only(matches, i + 1,
                                  list_remove(udt, matches[i][1]), ugt)

\* Lines 340-342: the loop over index_matches from position i on; list.remove
\* raises ValueError when the index is no longer in the list.
RECURSIVE derive_unmatched(_, _, _, _)
derive_unmatched(matches, i, udt, ugt) ==
    IF i > Len(matches)
    THEN [dt |-> udt, gt |-> ugt, err |-> "none"]
    ELSE IF ~InList(udt, matches[i][1])
    THEN [dt |-> udt, gt |-> ugt, err |-> "ValueError"]
    ELSE IF ~InList(ugt, matches[i][2])
    THEN [dt |-> list_remove(udt, matches[i][1]), gt |-> ugt,
          err |-> "ValueError"]
    ELSE derive_unmatched(matches, i + 1,
                          list_remove(udt, matches[i][1]),
                          list_remove(ugt, matches[i][2]))

\* Lines 339-342 and the return of match().
match_derive ==
    /\ mpc = "derive"
    /\ LET r == derive_unmatched(index_matches, 1,
                                 index_unmatched_dt, index_unmatched_gt)
       IN  /\ index_unmatched_dt' = r.dt
           /\ index_unmatched_gt' = r.gt
           /\ raised' = r.err
           /\ mpc' = IF r.err = "none" THEN "done" ELSE "raised"
    /\ first_matches' = IF calls = 1 THEN index_matches ELSE first_matches
    /\ UNCHANGED <<matcher_fields, iou_list, iou_grid, index_matches,
                   index_unmatched_dt_grouped, gti_loop, call, pre_gti,
                   calls>>
    /\ UNCHANGED proc_vars

Next ==
    \/ match_enter
    \/ match_row
    \/ compare_matches
    \/ compare_replace
    \/ match_derive

Spec == Init /\ [][Next]_vars

\* match() runs on the thread that called it, which executes its statements
\* one after the other until the return or a raise.
InitTerminates ==
    /\ \E gts \in SeqUpTo(BoxPool, MaxLive), dts \in SeqUpTo(BoxPool, MaxLive),
          grp \in BOOLEAN :
            MatcherIs(MatchDetections_init(gts, dts, grp))
    /\ mpc = "new"
    /\ ProcessCount_init(FALSE, FALSE)

SpecTerminates == InitTerminates /\ [][Next]_vars /\ WF_vars(Next)

\* A further call of match() on the same object, after the previous call has
\* returned: the fields keep what the previous call left in them.
match_again ==
    /\ mpc = "done"
    /\ calls < MaxCalls
    /\ match_begin
    /\ UNCHANGED proc_vars

NextRematch ==
    \/ match_enter
    \/ match_row
    \/ compare_matches
    \/ compare_replace
    \/ match_derive
    \/ match_again

SpecRematch == Init /\ [][NextRematch]_vars

\* The metric names given to MatchDetections.__init__ in the model: the
\* default and two names store_metric does not know.
MetricNames == {"iou", "giou", "IoU"}

\* MatchDetections.__init__ (lines 59-92) with the argument metric.
MatchDetections_init_metric(gts, dts, grp, m) ==
    [MatchDetections_init(gts, dts, grp) EXCEPT !.metric = m]

\* A matcher constructed with any of the metric names; match() is called on
\* it directly.
InitMetric ==
    /\ \E gts \in SeqUpTo(MetricBoxes, MaxMetric),
          dts \in SeqUpTo(MetricBoxes, MaxMetric),
          grp \in BOOLEAN, m \in MetricNames :
            MatcherIs(MatchDetections_init_metric(gts, dts, grp, m))
    /\ mpc = "new"
    /\ ProcessCount_init(FALSE, FALSE)

SpecMetric == InitMetric /\ [][Next]_vars

\* A matcher constructed with either of the metrics store_metric knows, on
\* boxes whose distances are whole numbers of units; match() is called on
\* it directly.
InitCenter ==
    /\ \E gts \in SeqUpTo(CenterBoxes, MaxCenter),
          dts \in SeqUpTo(CenterBoxes, MaxCenter),
          grp \in BOOLEAN, m \in {"iou", "centerpoint"} :
            MatcherIs(MatchDetections_init_metric(gts, dts, grp, m))
    /\ mpc = "new"
    /\ ProcessCount_init(FALSE, FALSE)

SpecCenter == InitCenter /\ [][Next]_vars

\* Every list of four coordinates up to MaxCoord, the degenerate and the
\* inverted ones included.
AllBoxes ==
    { <<x1, y1, x2, y2>> : x1 \in 0..MaxCoord, y1 \in 0..MaxCoord,
                           x2 \in 0..MaxCoord, y2 \in 0..MaxCoord }

\* A matcher of one ground truth and one prediction: match() applies
\* store_metric, and with it iou_2d, to the pair.
InitPair ==
    /\ \E box_a \in AllBoxes, box_b \in AllBoxes :
          MatcherIs(MatchDetections_init(<<box_b>>, <<box_a>>, FALSE))
    /\ mpc = "new"
    /\ ProcessCount_init(FALSE, FALSE)

NextPair ==
    \/ match_enter
    \/ match_row
    \/ compare_matches
    \/ match_derive

SpecPair == InitPair /\ [][NextPair]_vars

\* --------------------------------------------------- DataThread, 15-35
join_returns_unfinished(r) == thr[r] \in {"running", "finished"}

\* DataThread.join (lines 33-35): Thread.join(self) is called without the
\* timeout, so the caller is released only when the thread has finished.
join_returns(r) == thr[r] = "finished"

start_created(r) == [thr EXCEPT ![r] = "created"]

\* DataThread.start: the thread begins to run its target.
start(r) == [thr EXCEPT ![r] = "running"]

\* ------------------------------------------------- detector collaborators
\* What PackageDetector.detect may return for a frame (boxes only).
PackageDetections ==
    { <<>>,
      << <<0, 0, 4, 2>> >>,
      << <<0, 0, 4, 2>>, <<6, 1, 8, 3>> >>,
      << <<0, 0, 4, 2>>, <<1, 0, 7, 2>> >>,
      << <<0, 0, 10, 10>>, <<20, 20, 30, 30>> >> }

\* Characters are one-character strings; a text is a sequence of them.
TextAB == <<"a", "b">>
TextAb == <<"A", "b">>
TextA_B == <<"a", " ", "b">>
TextX == <<"x">>
Word_widget == <<"w", "i", "d", "g", "e", "t">>

\* score > 0.08 (textdetector.py line 72), in hundredths.
ScoreThreshold == 8

Detection(box, text, score) == [box |-> box, text |-> text, score |-> score]

\* What Reader.readtext may find in a frame.
TextReadings ==
    { ReadNone,
      Reading(<<>>),
      Reading(<< Detection(<<1, 0, 7, 2>>, TextAB, 90) >>),
      Reading(<< Detection(<<0, 0, 4, 2>>, TextX, 5) >>),
      Reading(<< Detection(<<1, 1, 9, 9>>, Word_widget, 90) >>),
      Reading(<< Detection(<<0, 0, 4, 2>>, TextAb, 90),
                 Detection(<<2, 0, 6, 2>>, TextA_B, 90) >>),
      Reading(<< Detection(<<2, 0, 6, 2>>, TextX, 90),
                 Detection(<<1, 0, 7, 2>>, <<>>, 90),
                 Detection(<<6, 1, 8, 3>>, TextAB, 90) >>) }

\* Lines 61-82: the detections kept, those with a text and a score above
\* the threshold.
TextDetector_kept(d) ==
    SelectSeq(d.items,
              LAMBDA x : x.text # <<>> /\ x.text # <<" ">>
                         /\ x.score > ScoreThreshold)

\* Line 84-88: numpy.array of an empty list has shape (0,), and
\* boxes[..., 0] on it raises IndexError.
TextDetector_raises(d) == ~d.is_none /\ TextDetector_kept(d) = <<>>

\* TextDetector.detect (lines 56-91) on the reading d, when it returns.
TextDetector_detect(d) ==
    IF d.is_none
    THEN Returns(<<>>, <<>>)
    ELSE LET kept == TextDetector_kept(d)
         IN  Returns([i \in DOMAIN kept |-> kept[i].box],
                     [i \in DOMAIN kept |-> kept[i].text])

\* What IdentificationDetector.detect may return for a frame (boxes only).
CodeDetections ==
    { Returns(<<>>, <<>>),
      Returns(<< <<1, 0, 7, 2>> >>, <<>>),
      Returns(<< <<0, 0, 4, 2>>, <<2, 0, 6, 2>> >>, <<>>) }

run_returns_dropped(r, value) == ret

\* DataThread.run (lines 29-32) when the target returned value: the value
\* is stored in _return.
run_returns(r, value) == [ret EXCEPT ![r] = value]

\* The target of package_thread ends (DataThread.run, lines 29-32): detect
\* returns its boxes, or an exception leaves run and _return stays None.
\* Nothing forces this step: a detector may take arbitrarily long.
package_detect ==
    /\ thr["package"] = "running"
    /\ \E failed \in BOOLEAN, b \in PackageDetections :
          ret' = IF failed THEN ret
                 ELSE run_returns("package", Returns(b, <<>>))
    /\ thr' = [thr EXCEPT !["package"] = "finished"]
    /\ UNCHANGED <<matcher_vars, ppc, detect_code, results_out, show,
                   detections, package_boxes, label_boxes, texts, categories,
                   collected_packages, shelf_id, result, waited>>

\* The target of identification_thread or text_thread ends.
second_detect ==
    /\ thr["second"] = "running"
    /\ IF detect_code
       THEN /\ \E failed \in BOOLEAN, d \in CodeDetections :
                  ret' = IF failed THEN ret ELSE run_returns("second", d)
            /\ detections' = detections
       ELSE \E d \in TextReadings :
               /\ detections' = d
               /\ ret' = IF TextDetector_raises(d) THEN ret
                         ELSE run_returns("second", TextDetector_detect(d))
    /\ thr' = [thr EXCEPT !["second"] = "finished"]
    /\ UNCHANGED <<matcher_vars, ppc, detect_code, results_out, show,
                   package_boxes, label_boxes, texts, categories,
                   collected_packages, shelf_id, result, waited>>

\* --------------------------------------------- CategorizeText, 57-68
\* str.lower() on the characters of the model.
lower(c) ==
    CASE c = "A" -> "a"
      [] c = "B" -> "b"
      [] c = "C" -> "c"
      [] c = "X" -> "x"
      [] OTHER -> c

\* text.lower().replace(" ", "")
normalize(text) ==
    LET low == [i \in DOMAIN text |-> lower(text[i])]
    IN  SelectSeq(low, LAMBDA c : c # " ")

\* Position of key in the dict, 0 if absent.
key_index(cats, key) ==
    IF \E i \in DOMAIN cats : cats[i].key = key
    THEN CHOOSE i \in DOMAIN cats : cats[i].key = key
    ELSE 0

categorize_text_overwrite(txt, i, cats) ==
    LET text == normalize(txt)
        k == key_index(cats, text)
    IN  IF k = 0
        THEN Append(cats, [key |-> text, value |-> <<i>>])
        ELSE [cats EXCEPT ![k].value = <<i>>]

\* Lines 64-68: the body of the loop for text number i.
categorize_text(txt, i, cats) ==
    LET text == normalize(txt)
        k == key_index(cats, text)
    IN  IF k = 0
        THEN Append(cats, [key |-> text, value |-> <<i>>])
        ELSE [cats EXCEPT ![k].value = Append(@, i)]

\* The loop of categorize_by_common_text from text i on.
RECURSIVE categorize_by_common_text(_, _, _)
categorize_by_common_text(txts, i, cats) ==
    IF i > Len(txts) THEN cats
    ELSE categorize_by_common_text(txts, i + 1,
                                   categorize_text(txts[i], i, cats))

\* ------------------------------------ CategorizeText, 38-55 (longest match)
Word_abc == <<"a", "b", "c">>
Word_ABC == <<"A", "B", "C">>
Word_xyz == <<"x", "y", "z">>
Word_111 == <<"1", "1", "1">>
Word_abd == <<"a", "b", "d">>
Word_ax == <<"a", "x">>
Word_xz == <<"x", "z">>
Text_a_tab_b == <<"a", "\t", "b">>

\* The texts a CategorizeText object is constructed with in the model.
TextPool ==
    { Word_abc, Word_ABC, Word_xyz, Word_111, Word_abd, Word_ax, Word_xz,
      TextAB, TextAb, TextA_B, Text_a_tab_b, TextX }

\* enchant.Dict("en_US").check (line 46) on the texts of the pool: words,
\* upper-case words and numbers are accepted.
dictionary_check(text) ==
    text \in { Word_abc, Word_ABC, Word_xyz, Word_111, TextAB }

\* enchant.Dict("en_US").suggest (line 51) on the texts of the pool, best
\* suggestion first; a suggestion may be capitalised and may be two words.
dictionary_suggest(text) ==
    CASE text = Word_abd -> <<Word_abc, TextAB>>
      [] text = Word_ax -> << <<"a", " ", "x">> >>
      [] text = Word_xz -> << <<"X", " ", "y", "z">>, Word_xyz >>
      [] text = TextA_B -> <<TextAB>>
      [] OTHER -> <<>>

\* str.isdigit(): a non-empty string of digits.
isdigit(text) ==
    /\ text # <<>>
    /\ \A i \in DOMAIN text :
          text[i] \in {"0", "1", "2", "3", "4", "5", "6", "7", "8", "9"}

accepts_word_longer(text, cats) ==
    Len(text) > 3 /\ key_index(cats, text) = 0 /\ ~isdigit(text)

\* Lines 47-48: the condition under which a recognized word is registered.
accepts_word(text, cats) ==
    Len(text) > 2 /\ key_index(cats, text) = 0 /\ ~isdigit(text)

\* Line 54: the condition under which a suggestion is registered.
accepts_suggestion(category, cats) ==
    Len(category) > 2 /\ key_index(cats, category) = 0

\* Lines 46-55: the body of the loop for one text.
register(text, cats) ==
    IF dictionary_check(text)
    THEN IF accepts_word(text, cats)
         THEN Append(cats, [key |-> text, value |-> <<>>])
         ELSE cats
    ELSE LET options == dictionary_suggest(text)
         IN  IF Len(options) > 0
             THEN LET category == normalize(options[1])
                  IN  IF accepts_suggestion(category, cats)
                      THEN Append(cats, [key |-> category, value |-> <<>>])
                      ELSE cats
             ELSE cats

\* The loop of categorize_by_longest_match from text i on.
RECURSIVE categorize_by_longest_match(_, _, _)
categorize_by_longest_match(txts, i, cats) ==
    IF i > Len(txts) THEN cats
    ELSE categorize_by_longest_match(txts, i + 1, register(txts[i], cats))

\* SequenceMatcher(None, a, b).find_longest_match().size: the length of
\* the longest block of characters common to a and b.
longest_match_size(a, b) ==
    LET sizes == { n \in 0..Min2(Len(a), Len(b)) :
                     \/ n = 0
                     \/ \E i \in 1..(Len(a) - n + 1), j \in 1..(Len(b) - n + 1) :
                           SubSeq(a, i, i + n - 1) = SubSeq(b, j, j + n - 1) }
    IN  CHOOSE n \in sizes : \A m \in sizes : m <= n

RECURSIVE best_key_or_equal(_, _, _, _, _)
best_key_or_equal(text, cats, k, largest_size, matched) ==
    IF k > Len(cats) THEN matched
    ELSE LET size == longest_match_size(text, cats[k].key)
         IN  IF size >= largest_size /\ size > 0
             THEN best_key_or_equal(text, cats, k + 1, size, k)
             ELSE best_key_or_equal(text, cats, k + 1, largest_size, matched)

\* Lines 79-83: the loop over the keys from position k on; matched is the
\* position of matched_key, 0 while it is None.
RECURSIVE best_key(_, _, _, _, _)
best_key(text, cats, k, largest_size, matched) ==
    IF k > Len(cats) THEN matched
    ELSE LET size == longest_match_size(text, cats[k].key)
         IN  IF size > largest_size
             THEN best_key(text, cats, k + 1, size, k)
             ELSE best_key(text, cats, k + 1, largest_size, matched)

matched_key_last(text, cats) == best_key_or_equal(text, cats, 1, 0, 0)

\* Lines 77-83: matched_key after the loop over all keys, started with
\* largest_size = 0 and matched_key = None.
matched_key(text, cats) == best_key(text, cats, 1, 0, 0)

\* Lines 75-86: the loop of classify from text i on.
RECURSIVE classify(_, _, _)
classify(txts, i, cats) ==
    IF i > Len(txts) THEN cats
    ELSE LET k == matched_key(normalize(txts[i]), cats)
         IN  classify(txts, i + 1,
                      IF k = 0 THEN cats
                      ELSE [cats EXCEPT ![k].value = Append(@, i)])

\* ------------------------------------ ProcessCount.process_text_counts
\* PackageImage(key) (line 258): label, count and boxes of a new entry, as
\* the data model gives them for PackageCount.
PackageImage(key) == [label |-> key, count |-> 0, boxes |-> <<>>]

count_match_recreated(match, cats, gts, collected) ==
    LET hits == { c \in DOMAIN cats : InList(cats[c].value, match[1]) }
    IN  IF hits = {} THEN collected
        ELSE LET c == CHOOSE h \in hits : \A o \in hits : h <= o
                 key == cats[c].key
                 withkey == Append(collected, PackageImage(key))
                 k == Len(withkey)
             IN  [withkey EXCEPT ![k].count = @ + 1,
                                 ![k].boxes = Append(@, gts[match[2]])]

count_match_unlabeled(match, cats, gts, collected) ==
    LET hits == { c \in DOMAIN cats : InList(cats[c].value, match[1]) }
    IN  IF hits = {} THEN Append(collected, PackageImage(<<>>))
        ELSE LET c == CHOOSE h \in hits : \A o \in hits : h <= o
                 key == cats[c].key
                 found == { k \in DOMAIN collected : collected[k].label = key }
                 withkey == IF found = {}
                            THEN Append(collected, PackageImage(key))
                            ELSE collected
                 k == CHOOSE x \in DOMAIN withkey : withkey[x].label = key
             IN  [withkey EXCEPT ![k].count = @ + 1,
                                 ![k].boxes = Append(@, gts[match[2]])]

\* Lines 254-268 for one match: the first category that holds the matched
\* text index gets a PackageImage (created on first use), its count is
\* incremented and the box of the ground truth is appended.
count_match(match, cats, gts, collected) ==
    LET hits == { c \in DOMAIN cats : InList(cats[c].value, match[1]) }
    IN  IF hits = {} THEN collected
        ELSE LET c == CHOOSE h \in hits : \A o \in hits : h <= o
                 key == cats[c].key
                 found == { k \in DOMAIN collected : collected[k].label = key }
                 withkey == IF found = {}
                            THEN Append(collected, PackageImage(key))
                            ELSE collected
                 k == CHOOSE x \in DOMAIN withkey : withkey[x].label = key
             IN  [withkey EXCEPT ![k].count = @ + 1,
                                 ![k].boxes = Append(@, gts[match[2]])]

\* Lines 251-269: the loop over index_matches from position i on.
RECURSIVE process_text_counts(_, _, _, _, _)
process_text_counts(matches, i, cats, gts, collected) ==
    IF i > Len(matches) THEN collected
    ELSE process_text_counts(matches, i + 1, cats, gts,
                             count_match(matches[i], cats, gts, collected))

\* ------------------------------------------- ProcessCount.visualize
\* image.shape of the frame (line 354).
FrameWidth == 2
FrameHeight == 3

\* Lines 357-365: the in-place conversion of a box array to pixel values.
to_pixels(boxes) ==
    [i \in DOMAIN boxes |->
        <<boxes[i][1] * FrameWidth, boxes[i][2] * FrameHeight,
          boxes[i][3] * FrameWidth, boxes[i][4] * FrameHeight>>]

\* ------------------------------------------ ProcessCount.process, 103-225
\* The unit of the model's clock is 0.1 s; the default timeout of
\* DataThread.join is 0.7 s (processthread.py line 33).
JoinTimeout == 7
\* Longest time the model lets the caller stay blocked in one join.
MaxWait == 8

\* Time passes while the caller is blocked in a join.
JoinedRole ==
    CASE ppc = "join_second" -> "second"
      [] ppc = "join_package" -> "package"
      [] ppc = "join_match" -> "match"
      [] ppc = "join_classifier" -> "classifier"
      [] OTHER -> "nobody"

tick ==
    /\ JoinedRole \in Roles
    /\ ~join_returns(JoinedRole)
    /\ waited < MaxWait
    /\ waited' = waited + 1
    /\ UNCHANGED <<matcher_vars, ppc, detect_code, results_out, show, thr,
                   ret, detections, package_boxes, label_boxes, texts, categories,
                   collected_packages, shelf_id, result>>

\* Lines 126-147: the call; a shelf image whose stitching yields None ends
\* the call at once, else package_thread is created and the second detector
\* thread (identification or text) is created and started.
process_enter ==
    /\ ppc = "idle"
    /\ \E code \in BOOLEAN, stitched \in BOOLEAN :
          /\ detect_code' = code
          /\ IF stitched
             THEN /\ ppc' = "start_package"
                  /\ thr' = [start("second") EXCEPT !["package"] = "created"]
                  /\ result' = result
             ELSE /\ ppc' = "returned"
                  /\ thr' = thr
                  /\ result' = "None"
    /\ UNCHANGED <<matcher_vars, results_out, show, ret, detections, package_boxes,
                   label_boxes, texts, categories, collected_packages,
                   shelf_id, waited>>

\* Line 148.
process_start_package ==
    /\ ppc = "start_package"
    /\ thr' = start("package")
    /\ ppc' = "join_second"
    /\ waited' = 0
    /\ UNCHANGED <<matcher_vars, detect_code, results_out, show, ret, detections,
                   package_boxes, label_boxes, texts, categories,
                   collected_packages, shelf_id, result>>

\* Lines 151-156: join of the second detector thread and the unpacking of
\* its result; unpacking None raises TypeError.
process_join_second ==
    /\ ppc = "join_second"
    /\ join_returns("second")
    /\ IF ret["second"] = NoneValue
       THEN /\ ppc' = "raised"
            /\ result' = "TypeError"
            /\ UNCHANGED <<label_boxes, texts>>
       ELSE /\ ppc' = "join_package"
            /\ label_boxes' = ret["second"].boxes
            /\ texts' = ret["second"].texts
            /\ result' = result
    /\ waited' = 0
    /\ UNCHANGED <<matcher_vars, detect_code, results_out, show, thr, ret, detections,
                   package_boxes, categories, collected_packages, shelf_id>>

\* Line 158: join of package_thread and the unpacking of its result.
process_join_package ==
    /\ ppc = "join_package"
    /\ join_returns("package")
    /\ IF ret["package"] = NoneValue
       THEN /\ ppc' = "raised"
            /\ result' = "TypeError"
            /\ UNCHANGED package_boxes
       ELSE /\ ppc' = "matchers"
            /\ package_boxes' = ret["package"].boxes
            /\ result' = result
    /\ waited' = 0
    /\ UNCHANGED <<matcher_vars, detect_code, results_out, show, thr, ret, detections,
                   label_boxes, texts, categories, collected_packages,
                   shelf_id>>

\* The matcher variables take the object o, on which match() is not called
\* yet.
MatcherBecomes(o) ==
    /\ ground_truths' = o.ground_truths
    /\ predictions' = o.predictions
    /\ group' = o.group
    /\ metric' = o.metric
    /\ iou_list' = o.iou_list
    /\ iou_grid' = o.iou_grid
    /\ index_matches' = o.index_matches
    /\ index_unmatched_dt' = o.index_unmatched_dt
    /\ index_unmatched_gt' = o.index_unmatched_gt
    /\ index_unmatched_dt_grouped' = o.index_unmatched_dt_grouped
    /\ mpc' = "new"
    /\ UNCHANGED <<gti_loop, call, pre_gti, calls, first_matches, raised>>

\* Lines 161-170: identifier mode.  The matcher is constructed with
\* group=True and match_code_thread is started; the thread is not joined.
process_match_code ==
    /\ ppc = "matchers"
    /\ detect_code
    /\ MatcherBecomes(MatchDetections_init(package_boxes, label_boxes, TRUE))
    /\ thr' = start("match")
    /\ ppc' = "return"
    /\ UNCHANGED <<detect_code, results_out, show, ret, detections, package_boxes,
                   label_boxes, texts, categories, collected_packages,
                   shelf_id, result, waited>>

\* Lines 181-196: text mode.  With packages and texts present the matcher
\* and the classifier are constructed and match_text_thread is started;
\* else the frame goes to line 224.
process_match_text ==
    /\ ppc = "matchers"
    /\ ~detect_code
    /\ IF Len(package_boxes) > 0 /\ Len(label_boxes) > 0
       THEN /\ MatcherBecomes(
                  MatchDetections_init(package_boxes, label_boxes, FALSE))
            /\ thr' = [start("match") EXCEPT !["classifier"] = "created"]
            /\ ppc' = "start_classifier"
       ELSE /\ UNCHANGED <<matcher_vars, thr>>
            /\ ppc' = "return"
    /\ UNCHANGED <<detect_code, results_out, show, ret, detections, package_boxes,
                   label_boxes, texts, categories, collected_packages,
                   shelf_id, result, waited>>

\* Line 197.
process_start_classifier ==
    /\ ppc = "start_classifier"
    /\ thr' = start("classifier")
    /\ ppc' = "join_match"
    /\ waited' = 0
    /\ UNCHANGED <<matcher_vars, detect_code, results_out, show, ret, detections,
                   package_boxes, label_boxes, texts, categories,
                   collected_packages, shelf_id, result>>

\* Line 200.
process_join_match ==
    /\ ppc = "join_match"
    /\ join_returns("match")
    /\ ppc' = "join_classifier"
    /\ waited' = 0
    /\ UNCHANGED <<matcher_vars, detect_code, results_out, show, thr, ret, detections,
                   package_boxes, label_boxes, texts, categories,
                   collected_packages, shelf_id, result>>

\* Line 201.
process_join_classifier ==
    /\ ppc = "join_classifier"
    /\ join_returns("classifier")
    /\ ppc' = "counts"
    /\ waited' = 0
    /\ UNCHANGED <<matcher_vars, detect_code, results_out, show, thr, ret, detections,
                   package_boxes, label_boxes, texts, categories,
                   collected_packages, shelf_id, result>>

\* Lines 207-208: aggregation.
process_counts ==
    /\ ppc = "counts"
    /\ collected_packages' =
          process_text_counts(index_matches, 1, categories, ground_truths,
                              <<>>)
    /\ ppc' = "output"
    /\ UNCHANGED <<matcher_vars, detect_code, results_out, show, thr, ret, detections,
                   package_boxes, label_boxes, texts, categories, shelf_id,
                   result, waited>>

\* Lines 210-222: save_csv and visualize when results are written or
\* shown.  visualize scales the two box arrays in place; the matcher's
\* ground_truths and predictions are those arrays, and the boxes held by
\* the PackageImage entries are rows of the package array.
process_output ==
    /\ ppc = "output"
    /\ IF results_out \/ show
       THEN /\ package_boxes' = to_pixels(package_boxes)
            /\ label_boxes' = to_pixels(label_boxes)
            /\ ground_truths' = to_pixels(ground_truths)
            /\ predictions' = to_pixels(predictions)
            /\ collected_packages' =
                  [k \in DOMAIN collected_packages |->
                      [collected_packages[k] EXCEPT !.boxes = to_pixels(@)]]
       ELSE UNCHANGED <<package_boxes, label_boxes, ground_truths,
                        predictions, collected_packages>>
    /\ ppc' = "return"
    /\ UNCHANGED <<group, metric, iou_list, iou_grid, index_matches,
                   index_unmatched_dt, index_unmatched_gt,
                   index_unmatched_dt_grouped, mpc, gti_loop, call,
                   pre_gti, calls, first_matches, raised>>
    /\ UNCHANGED <<detect_code, results_out, show, thr, ret, detections, texts,
                   categories, shelf_id, result, waited>>

\* Lines 224-225.
process_return ==
    /\ ppc = "return"
    /\ shelf_id' = shelf_id + 1
    /\ result' = "image"
    /\ ppc' = "returned"
    /\ UNCHANGED <<matcher_vars, detect_code, results_out, show, thr, ret, detections,
                   package_boxes, label_boxes, texts, categories,
                   collected_packages, waited>>

\* The target of the matcher thread, MatchDetections.match, is entered.
match_thread_run ==
    /\ thr["match"] = "running"
    /\ mpc = "new"
    /\ match_begin
    /\ UNCHANGED proc_vars

\* match() has returned or raised: DataThread.run ends.
match_thread_exit ==
    /\ thr["match"] = "running"
    /\ mpc \in {"done", "raised"}
    /\ thr' = [thr EXCEPT !["match"] = "finished"]
    /\ UNCHANGED <<matcher_vars, ppc, detect_code, results_out, show, ret, detections,
                   package_boxes, label_boxes, texts, categories,
                   collected_packages, shelf_id, result, waited>>

\* The target of the classifier thread, categorize_by_common_text.
classifier_run ==
    /\ thr["classifier"] = "running"
    /\ categories' = categorize_by_common_text(texts, 1, categories)
    /\ thr' = [thr EXCEPT !["classifier"] = "finished"]
    /\ UNCHANGED <<matcher_vars, ppc, detect_code, results_out, show, ret, detections,
                   package_boxes, label_boxes, texts, collected_packages,
                   shelf_id, result, waited>>

\* One frame handed to ProcessCount.process after construction.
InitProcess ==
    /\ MatcherIs(MatchDetections_init(<<>>, <<>>, FALSE))
    /\ mpc = "none"
    /\ \E out \in BOOLEAN, shw \in BOOLEAN : ProcessCount_init(out, shw)

NextProcess ==
    \/ process_enter
    \/ process_start_package
    \/ process_join_second
    \/ process_join_package
    \/ process_match_code
    \/ process_match_text
    \/ process_start_classifier
    \/ process_join_match
    \/ process_join_classifier
    \/ process_counts
    \/ process_output
    \/ process_return
    \/ package_detect
    \/ second_detect
    \/ match_thread_run
    \/ match_thread_exit
    \/ classifier_run
    \/ match_row
    \/ compare_matches
    \/ compare_replace
    \/ match_derive
    \/ tick

SpecProcess == InitProcess /\ [][NextProcess]_vars

\* --------------------------------------------- CategorizeText on its own
\* CategorizeText.__init__ (lines 30-36) on texts from the pool: a fresh
\* object on which one of the categorizing methods is then called.
InitCategorize ==
    /\ MatcherIs(MatchDetections_init(<<>>, <<>>, FALSE))
    /\ mpc = "none"
    /\ ppc = "categorizer"
    /\ detect_code = FALSE
    /\ results_out = FALSE
    /\ show = FALSE
    /\ thr = [r \in Roles |-> "none"]
    /\ ret = [r \in Roles |-> NoneValue]
    /\ detections = NoReading
    /\ package_boxes = <<>>
    /\ label_boxes = <<>>
    /\ texts \in SeqUpTo(TextPool, MaxTexts)
    /\ categories = <<>>
    /\ collected_packages = <<>>
    /\ shelf_id = 0
    /\ result = "none"
    /\ waited = 0

\* A call of categorize_by_common_text on the fresh object.
call_categorize_by_common_text ==
    /\ ppc = "categorizer"
    /\ mpc \in {"none", "done"}
    /\ categories' = categorize_by_common_text(texts, 1, categories)
    /\ ppc' = "common_text"
    /\ UNCHANGED <<matcher_vars, detect_code, results_out, show, thr, ret,
                   detections, package_boxes, label_boxes, texts,
                   collected_packages, shelf_id, result, waited>>

\* A call of categorize_by_longest_match on the fresh object.
call_categorize_by_longest_match ==
    /\ ppc = "categorizer"
    /\ mpc \in {"none", "done"}
    /\ categories' = categorize_by_longest_match(texts, 1, categories)
    /\ ppc' = "longest_match"
    /\ UNCHANGED <<matcher_vars, detect_code, results_out, show, thr, ret,
                   detections, package_boxes, label_boxes, texts,
                   collected_packages, shelf_id, result, waited>>

\* A call of classify after categorize_by_longest_match.
call_classify ==
    /\ ppc = "longest_match"
    /\ mpc \in {"none", "done"}
    /\ categories' = classify(texts, 1, categories)
    /\ ppc' = "classified"
    /\ UNCHANGED <<matcher_vars, detect_code, results_out, show, thr, ret,
                   detections, package_boxes, label_boxes, texts,
                   collected_packages, shelf_id, result, waited>>

NextCategorize ==
    \/ call_categorize_by_common_text
    \/ call_categorize_by_longest_match
    \/ call_classify

SpecCategorize == InitCategorize /\ [][NextCategorize]_vars

\* ------------------------------------- process_text_counts on its own
\* The boxes and the texts of a direct aggregation.
AggBoxes == { <<0, 0, 4, 2>>, <<2, 0, 6, 2>>, <<6, 1, 8, 3>> }
AggTexts == { Word_abc, Word_abd, TextX }

\* A MatchDetections of package boxes and text boxes and a CategorizeText of
\* the texts of those text boxes, both fresh (processcount.py lines
\* 184-191).  match() is called, then the categorizer in either mode, then
\* process_text_counts, one after the other.
InitAggregate ==
    /\ \E gts \in SeqUpTo(AggBoxes, MaxAgg), dts \in SeqUpTo(AggBoxes, MaxAgg) :
          /\ MatcherIs(MatchDetections_init(gts, dts, FALSE))
          /\ package_boxes = gts
          /\ label_boxes = dts
          /\ texts \in [1..Len(dts) -> AggTexts]
    /\ mpc = "new"
    /\ ppc = "categorizer"
    /\ detect_code = FALSE
    /\ results_out = FALSE
    /\ show = FALSE
    /\ thr = [r \in Roles |-> "none"]
    /\ ret = [r \in Roles |-> NoneValue]
    /\ detections = NoReading
    /\ categories = <<>>
    /\ collected_packages = <<>>
    /\ shelf_id = 0
    /\ result = "none"
    /\ waited = 0

\* A call of process_text_counts(match_package_text, text_classifier).
call_process_text_counts ==
    /\ mpc = "done"
    /\ ppc \in {"categorizer", "common_text", "longest_match", "classified"}
    /\ collected_packages' =
          process_text_counts(index_matches, 1, categories, ground_truths,
                              <<>>)
    /\ ppc' = "counted"
    /\ UNCHANGED <<matcher_vars, detect_code, results_out, show, thr, ret,
                   detections, package_boxes, label_boxes, texts, categories,
                   shelf_id, result, waited>>

NextAggregate ==
    \/ match_enter
    \/ match_row
    \/ compare_matches
    \/ compare_replace
    \/ match_derive
    \/ call_categorize_by_common_text
    \/ call_categorize_by_longest_match
    \/ call_classify
    \/ call_process_text_counts

SpecAggregate == InitAggregate /\ [][NextAggregate]_vars

\* The boxes of the matchers built on reordered inputs; <<2, 0, 6, 2>> and
\* <<1, 0, 7, 2>> each overlap <<0, 0, 4, 2>> and <<4, 0, 8, 2>> equally.
PermBoxes ==
    { <<0, 0, 4, 2>>, <<2, 0, 6, 2>>, <<1, 0, 7, 2>>, <<4, 0, 8, 2>> }

\* The orders of a list of n elements, and the list in the order f.
Orders(n) ==
    { f \in [1..n -> 1..n] : \A i, j \in 1..n : i # j => f[i] # f[j] }
Reordered(lst, f) == [i \in DOMAIN lst |-> lst[f[i]]]

\* A matcher on package_boxes and label_boxes, as process() constructs it
\* (lines 184-187); match() is called on it directly.
InitPermuted ==
    /\ \E gts \in SeqUpTo(PermBoxes, MaxPerm), dts \in SeqUpTo(PermBoxes, MaxPerm) :
          /\ MatcherIs(MatchDetections_init(gts, dts, FALSE))
          /\ package_boxes = gts
          /\ label_boxes = dts
    /\ mpc = "new"
    /\ ppc = "idle"
    /\ detect_code = FALSE
    /\ results_out = FALSE
    /\ show = FALSE
    /\ thr = [r \in Roles |-> "none"]
    /\ ret = [r \in Roles |-> NoneValue]
    /\ detections = NoReading
    /\ texts = <<>>
    /\ categories = <<>>
    /\ collected_packages = <<>>
    /\ shelf_id = 0
    /\ result = "none"
    /\ waited = 0

\* After match() has returned, a second MatchDetections is constructed on
\* the same boxes listed in another order (lines 59-92); match() is then
\* called on it.  first_matches keeps the matches of the first matcher.
construct_reordered ==
    /\ mpc = "done"
    /\ calls = 1
    /\ \E f \in Orders(Len(package_boxes)), h \in Orders(Len(label_boxes)) :
          MatcherBecomes(MatchDetections_init(Reordered(package_boxes, f),
                                              Reordered(label_boxes, h),
                                              FALSE))
    /\ UNCHANGED proc_vars

NextPermuted ==
    \/ match_enter
    \/ match_row
    \/ compare_matches
    \/ compare_replace
    \/ match_derive
    \/ construct_reordered

SpecPermuted == InitPermuted /\ [][NextPermuted]_vars

\* ------------------------------------------------------------------ claims
\* Vocabulary of the claims about the matcher.
NGT == Len(ground_truths)
NDT == Len(predictions)
MatchSet == { index_matches[i] : i \in DOMAIN index_matches }
MatchedDT == { m[1] : m \in MatchSet }
MatchedGT == { m[2] : m \in MatchSet }
ListSet(lst) == { lst[i] : i \in DOMAIN lst }
NoRepeat(lst) == \A i, j \in DOMAIN lst : i # j => lst[i] # lst[j]
\* similarity(g, p) as store_metric first computes it.
similarity(g, p) == iou_2d(predictions[p], ground_truths[g])
Returned == mpc = "done" /\ calls = 1

\* C1: at every step of match(), also between the removal and the insertion
\* of a replacement and during recursive rematching, and in the final result,
\* no prediction index and no ground-truth index occurs in two match pairs.
C1_OneToOne ==
    \A i, j \in DOMAIN index_matches :
        i # j => /\ index_matches[i][1] # index_matches[j][1]
                 /\ index_matches[i][2] # index_matches[j][2]

\* C1 witness: a displaced ground truth is being rematched (a recursive call
\* of compare_matches for an earlier row) while two pairs are in the set.
C1_Witness ==
    /\ mpc = "cmp"
    /\ call[2] < gti_loop
    /\ Len(index_matches) >= 2

HasCandidate(g) == \E p \in 1..NDT : ~Eq(similarity(g, p), Zero)
PartnersOf(g) == { p \in 1..NDT : <<p, g>> \in MatchSet }

BestOf(g) == argmax([p \in 1..NDT |-> similarity(g, p)])
\* The highest similarity of g to a prediction other than p (Zero if none).
NextBest(g, p) ==
    LET others == { q \in 1..NDT : q # p /\ Gt(similarity(g, q), Zero) }
    IN  IF others = {} THEN Zero
        ELSE similarity(g, CHOOSE q \in others :
                   \A r \in others : ~Gt(similarity(g, r), similarity(g, q)))

\* The claim of C3 for winner w and loser l of prediction p.
C3_Resolved(p, w, l) ==
    /\ <<p, w>> \in MatchSet
    /\ IF Gt(NextBest(l, p), Zero)
       THEN \E q \in 1..NDT :
               /\ q # p
               /\ PartnersOf(l) = {q}
               /\ Eq(similarity(l, q), NextBest(l, p))
       ELSE PartnersOf(l) = {}

EmptyInput == NGT = 0 \/ NDT = 0

\* C7: with an empty ground-truth set or an empty prediction set, match()
\* returns without error, with no match pair and with every prediction index
\* and every ground-truth index in its unmatched list.
C7_Empty ==
    (EmptyInput /\ calls = 1) =>
        /\ mpc = "done"
        /\ raised = "none"
        /\ index_matches = <<>>
        /\ index_unmatched_dt = [i \in 1..NDT |-> i]
        /\ index_unmatched_gt = [i \in 1..NGT |-> i]

\* C7 witness: match() has returned on no predictions and three ground truths.
C7_Witness ==
    /\ Returned
    /\ NDT = 0
    /\ NGT = 3

\* C6: a second match() on the same object and the same inputs ends like the
\* first one: it returns, and with the same match set.
C6_Idempotent ==
    (calls = 2 /\ mpc \in {"done", "raised"}) =>
        /\ mpc = "done"
        /\ MatchSet = { first_matches[i] : i \in DOMAIN first_matches }

DetectorJoin == ppc \in {"join_second", "join_package"}

\* C8: a detector task that never returns does not hold the caller in
\* join() beyond the join timeout.
C8_JoinBounded == DetectorJoin => waited <= JoinTimeout

\* C9: in text mode aggregation (process_text_counts) does not begin before
\* the matching task and the categorization task of the frame have completed.
C9_AggregateAfterJoins ==
    (ppc = "counts" \/ collected_packages # <<>>) =>
        /\ thr["match"] = "finished"
        /\ thr["classifier"] = "finished"
        /\ mpc \in {"done", "raised"}

\* C9 witness: the caller is at the aggregation with matches and categories
\* to fold.
C9_Witness ==
    /\ ppc = "counts"
    /\ ~detect_code
    /\ Len(index_matches) >= 2
    /\ Len(categories) >= 2

\* C10: when process() returns, every task it started for the frame has
\* completed, in identifier mode as in text mode.
C10_FrameRetired ==
    ppc = "returned" => \A r \in Roles : thr[r] \in {"none", "finished"}

\* Vocabulary of the claims about one frame of process().
ProcessEnded == ppc \in {"returned", "raised"}
\* The target of the thread raised: the thread is over and left no value.
TaskFailed(r) == thr[r] = "finished" /\ ret[r] = NoneValue
TaskReturned(r) == thr[r] = "finished" /\ ret[r] # NoneValue

\* C11: when the target of a detector task of the frame has raised,
\* process() still returns (it does not raise) and the frame yields no
\* PackageCount entry.
C11_FailureIsolated ==
    (ProcessEnded /\ (TaskFailed("package") \/ TaskFailed("second"))) =>
        /\ ppc = "returned"
        /\ collected_packages = <<>>

\* A detector of the frame found nothing: the package or identifier detector
\* returned no box, or the text reader's list left no detection to keep.
ZeroDetections ==
    \/ TaskReturned("package") /\ ret["package"].boxes = <<>>
    \/ detect_code /\ TaskReturned("second") /\ ret["second"].boxes = <<>>
    \/ ~detect_code /\ detections.read /\ TextDetector_kept(detections) = <<>>

\* No model inference of the frame has raised.
NoInferenceFailure ==
    /\ ~TaskFailed("package")
    /\ detect_code => ~TaskFailed("second")

\* C12: when a detector finds zero detections (packages, identifiers or
\* texts), process() completes without error and the frame yields no
\* PackageCount entry.
C12_ZeroDetections ==
    (ProcessEnded /\ ZeroDetections /\ NoInferenceFailure) =>
        /\ ppc = "returned"
        /\ collected_packages = <<>>

\* Vocabulary of the claims about the categorizer.  Text indices of the
\* model are those of the code plus one.
CategoriesOf(i) == { k \in DOMAIN categories : InList(categories[k].value, i) }
Occurrences(i, lst) == Cardinality({ n \in DOMAIN lst : lst[n] = i })
UpperToLower == ("A" :> "a") @@ ("B" :> "b") @@ ("C" :> "c") @@ ("X" :> "x")
CaseFolded(text) ==
    [n \in DOMAIN text |->
        IF text[n] \in DOMAIN UpperToLower THEN UpperToLower[text[n]]
        ELSE text[n]]
WithoutChars(text, S) == SelectSeq(text, LAMBDA c : c \notin S)
Whitespace == {" ", "\t"}
\* Case-folded, whitespace removed.
FoldedNoWhitespace(text) == WithoutChars(CaseFolded(text), Whitespace)
\* Lower-cased, space characters removed.
FoldedNoSpaces(text) == WithoutChars(CaseFolded(text), {" "})
\* The example of the claim: ["abc", "ABC", "xyz"].
ExampleTexts == <<Word_abc, Word_ABC, Word_xyz>>
ExampleCategories ==
    << [key |-> Word_abc, value |-> <<1, 2>>],
       [key |-> Word_xyz, value |-> <<3>>] >>

\* Every text index is in exactly one category, once, and the key of that
\* category is form(texts[i]); two indices share a category exactly when
\* their forms are equal; the example input yields the example categories.
CategorizedBy(form(_)) ==
    /\ \A i \in DOMAIN texts :
          /\ \E k \in DOMAIN categories :
                /\ CategoriesOf(i) = {k}
                /\ categories[k].key = form(texts[i])
                /\ Occurrences(i, categories[k].value) = 1
    /\ \A i, j \in DOMAIN texts :
          (CategoriesOf(i) = CategoriesOf(j))
              <=> (form(texts[i]) = form(texts[j]))
    /\ \A k \in DOMAIN categories :
          \A n \in DOMAIN categories[k].value :
              categories[k].value[n] \in DOMAIN texts
    /\ texts = ExampleTexts => categories = ExampleCategories

\* C13 (as stated): after categorize_by_common_text every text index is in
\* exactly one category, the one keyed by texts[i] case-folded with its
\* whitespace removed; two indices share a category if and only if these
\* forms are equal; ["abc", "ABC", "xyz"] gives abc: {0,1}, xyz: {2}.
C13_ByNormalizedText ==
    ppc = "common_text" => CategorizedBy(FoldedNoWhitespace)

\* C13 (amended): the same with the key being texts[i] lower-cased with
\* its space characters removed; other whitespace, such as a tab, stays in
\* the key.
C13_ByLoweredText ==
    ppc = "common_text" => CategorizedBy(FoldedNoSpaces)

\* C13 witness: three texts that differ in case, in a space and in a tab
\* have been put in two categories.
C13_Witness ==
    /\ ppc = "common_text"
    /\ texts = <<TextA_B, Text_a_tab_b, TextAb>>
    /\ Len(categories) = 2
    /\ categories[1].value = <<1, 3>>

HasKey(key) == \E k \in DOMAIN categories : categories[k].key = key
NoMembers == \A k \in DOMAIN categories : categories[k].value = <<>>
DistinctKeys ==
    \A k, l \in DOMAIN categories :
        k # l => categories[k].key # categories[l].key
DigitsOnly(text) ==
    /\ Len(text) > 0
    /\ \A n \in DOMAIN text :
          text[n] \in {"0", "1", "2", "3", "4", "5", "6", "7", "8", "9"}
TopSuggestion(text) == dictionary_suggest(text)[1]
Unrecognized(text) ==
    ~dictionary_check(text) /\ Len(dictionary_suggest(text)) > 0

\* C14 (as stated): after categorize_by_longest_match every input string
\* that is a recognized word of length > 2 is a category key, for every
\* unrecognized string the top suggestion is a category key when that
\* suggestion has length > 2, and the categories have no members.
C14_Registers ==
    ppc = "longest_match" =>
        /\ \A i \in DOMAIN texts :
              (dictionary_check(texts[i]) /\ Len(texts[i]) > 2)
                  => HasKey(texts[i])
        /\ \A i \in DOMAIN texts :
              (Unrecognized(texts[i]) /\ Len(TopSuggestion(texts[i])) > 2)
                  => HasKey(TopSuggestion(texts[i]))
        /\ NoMembers
        /\ DistinctKeys

\* C14 (amended): after categorize_by_longest_match every input string that
\* is a recognized word of length > 2 and not made of digits only is a
\* category key; for every unrecognized string with a suggestion, the top
\* suggestion lower-cased with its spaces removed is a category key when
\* that form has length > 2; no key is registered twice and the categories
\* have no members.
C14_RegistersNormalized ==
    ppc = "longest_match" =>
        /\ \A i \in DOMAIN texts :
              (dictionary_check(texts[i]) /\ Len(texts[i]) > 2
                 /\ ~DigitsOnly(texts[i]))
                  => HasKey(texts[i])
        /\ \A i \in DOMAIN texts :
              (Unrecognized(texts[i])
                 /\ Len(FoldedNoSpaces(TopSuggestion(texts[i]))) > 2)
                  => HasKey(FoldedNoSpaces(TopSuggestion(texts[i])))
        /\ NoMembers
        /\ DistinctKeys

\* C14 witness: a number, a string whose top suggestion is two capitalised
\* words, and a recognized word have left two categories.
C14_Witness ==
    /\ ppc = "longest_match"
    /\ texts = <<Word_111, Word_xz, Word_abc>>
    /\ Len(categories) = 2
    /\ categories[1].key = Word_xyz

\* Vocabulary of the claims about the aggregation.
\* The positions of index_matches whose prediction is in some category.
Counted ==
    { n \in DOMAIN index_matches : CategoriesOf(index_matches[n][1]) # {} }
\* The key of the category of the prediction of match number n.
KeyOfPair(n) ==
    LET cs == CategoriesOf(index_matches[n][1])
    IN  categories[CHOOSE c \in cs : \A o \in cs : c <= o].key
\* The boxes of the ground truths of the counted matches of a key, in the
\* order of index_matches.
BoxesOf(key) ==
    LET ns == SelectSeq([n \in DOMAIN index_matches |-> n],
                        LAMBDA n : n \in Counted /\ KeyOfPair(n) = key)
    IN  [m \in DOMAIN ns |-> ground_truths[index_matches[ns[m]][2]]]
RECURSIVE SumOfCounts(_)
SumOfCounts(entries) ==
    IF entries = <<>> THEN 0
    ELSE Head(entries).count + SumOfCounts(Tail(entries))
Aggregated(entries) ==
    /\ \A k, l \in DOMAIN entries :
          k # l => entries[k].label # entries[l].label
    /\ \A n \in Counted :
          \E k \in DOMAIN entries : entries[k].label = KeyOfPair(n)
    /\ \A k \in DOMAIN entries :
          /\ entries[k].boxes = BoxesOf(entries[k].label)
          /\ entries[k].count = Len(entries[k].boxes)
          /\ entries[k].count >= 1
    /\ SumOfCounts(entries) = Cardinality(Counted)

\* C15: process_text_counts handles every match pair (p, g) once: a pair
\* whose p is in a category adds one to the count of the PackageCount
\* labelled with that category's key (created on its first pair) and
\* appends the box of g to it; a pair whose p is in no category changes
\* nothing; the counts add up to the number of pairs whose p has a category.
C15_Aggregation == ppc = "counted" => Aggregated(collected_packages)

\* C15 witness: an aggregation over two match pairs of which one has a
\* prediction that is in no category.
C15_Witness ==
    /\ ppc = "counted"
    /\ Len(index_matches) = 2
    /\ Cardinality(Counted) = 1
    /\ Len(collected_packages) = 1

\* The frame of the end-to-end scenario, as the detectors returned it.
ExampleFrame ==
    /\ package_boxes = << <<0, 0, 10, 10>>, <<20, 20, 30, 30>> >>
    /\ label_boxes = << <<1, 1, 9, 9>> >>
    /\ texts = <<Word_widget>>

\* C16: for package boxes [[0,0,10,10],[20,20,30,30]], text boxes
\* [[1,1,9,9]] and texts ["widget"], when process_text_counts returns in
\* process() the match set is {(0,0)}, the second package box is unmatched,
\* and there is exactly one PackageCount: label widget, count 1 and boxes
\* [[0,0,10,10]].
C16_EndToEnd ==
    (ppc = "output" /\ ExampleFrame) =>
        /\ MatchSet = { <<1, 1>> }
        /\ index_unmatched_gt = <<2>>
        /\ index_unmatched_dt = <<>>
        /\ collected_packages =
              << [label |-> Word_widget, count |-> 1,
                  boxes |-> << <<0, 0, 10, 10>> >>] >>

\* C16 witness: process() has aggregated the frame of the scenario.
C16_Witness ==
    /\ ppc = "output"
    /\ ExampleFrame
    /\ Len(collected_packages) = 1

\* One step of a DataThread r, as C17 has it.
\* start() leaves the thread running and the caller past the call.
StartReturns(r) ==
    (thr[r] # "running" /\ thr'[r] = "running") =>
        /\ thr[r] \in {"none", "created"}
        /\ ppc' # ppc
\* The target runs once: the thread ends only out of a started run, and
\* once it has ended neither its state nor its value changes.
RunsOnce(r) ==
    /\ (thr[r] # "finished" /\ thr'[r] = "finished") => thr[r] = "running"
    /\ thr[r] = "finished" => (thr'[r] = "finished" /\ ret'[r] = ret[r])
\* The text detector's thread ends with the value detect returned on the
\* reading it got, and the join that follows hands that value to process().
JoinReturnsValue ==
    /\ (~detect_code /\ thr["second"] = "running"
          /\ thr'["second"] = "finished"
          /\ ~TextDetector_raises(detections'))
           => ret'["second"] = TextDetector_detect(detections')
    /\ (~detect_code /\ ppc = "join_second" /\ ppc' = "join_package")
           => Returns(label_boxes', texts') = TextDetector_detect(detections)
    /\ (ppc = "join_package" /\ ppc' = "matchers")
           => /\ thr["package"] = "finished"
              /\ package_boxes' = ret["package"].boxes

\* C17: start() returns without waiting for the target, the target is run
\* exactly once, and a join() that returns after the target has completed
\* returns the value the target returned.
C17_DataThread ==
    [][ /\ \A r \in Roles : StartReturns(r) /\ RunsOnce(r)
        /\ JoinReturnsValue ]_vars

\* C17 witness: process() holds the texts its join got from the text
\* thread while the package thread, started before, is still running.
C17_Witness ==
    /\ ppc = "join_package"
    /\ thr["package"] = "running"
    /\ thr["second"] = "finished"
    /\ Len(texts) = 2

\* C18: match() on a matcher whose metric is neither iou nor centerpoint
\* ends with the unsupported-metric error (ValueError) and records no match,
\* whatever the ground truths and predictions are.
C18_UnsupportedMetric ==
    (metric \notin {"iou", "centerpoint"}) =>
        /\ index_matches = <<>>
        /\ (calls = 1 /\ mpc \in {"done", "raised"}) =>
              (mpc = "raised" /\ raised = "ValueError")

\* Vocabulary of the claims about iou_2d on one pair of boxes.
One == <<1, 1>>
Proper(box) == box[1] < box[3] /\ box[2] < box[4]
\* The unit square with lower left corner (i, j) lies in the box.
Covers(box, i, j) ==
    box[1] <= i /\ i + 1 <= box[3] /\ box[2] <= j /\ j + 1 <= box[4]
\* The boxes share area: with integer corners, a unit square.
Overlap(a, b) ==
    \E i \in 0..MaxCoord, j \in 0..MaxCoord : Covers(a, i, j) /\ Covers(b, i, j)
\* The value store_metric wrote for the pair.
PairStored == mpc \in {"cmp", "derive", "done"} /\ NGT = 1 /\ NDT = 1

\* C19: iou(a, a) is 1 for every box a with xmin < xmax and ymin < ymax,
\* and iou(a, b) is 0 for every two boxes that do not overlap.
C19_IouEnds ==
    PairStored =>
        /\ (Proper(predictions[1]) /\ predictions[1] = ground_truths[1])
               => Eq(iou_grid[1][1], One)
        /\ ~Overlap(predictions[1], ground_truths[1])
               => Eq(iou_grid[1][1], Zero)

\* C19 witness: match() has returned on a box paired with itself, with the
\* pair matched.
C19_Witness ==
    /\ PairStored
    /\ mpc = "done"
    /\ Proper(predictions[1])
    /\ predictions[1] = ground_truths[1]
    /\ index_matches = << <<1, 1>> >>

\* Vocabulary of the claim about reordered inputs.
\* The matched pairs as pairs of boxes <<prediction, ground truth>>.
BoxPairs(matches, gts, dts) ==
    { <<dts[matches[n][1]], gts[matches[n][2]]>> : n \in DOMAIN matches }
\* match() has returned on the second matcher, built on the reordered lists.
ReorderedReturned == mpc = "done" /\ calls = 2
SameBoxPairs ==
    BoxPairs(index_matches, ground_truths, predictions)
        = BoxPairs(first_matches, package_boxes, label_boxes)
\* No ground truth has the same nonzero similarity to two predictions and
\* no prediction has the same nonzero similarity to two ground truths.
NoTies ==
    /\ \A g \in 1..NGT : \A p, q \in 1..NDT :
          (p # q /\ ~Eq(similarity(g, p), Zero))
              => ~Eq(similarity(g, p), similarity(g, q))
    /\ \A p \in 1..NDT : \A g, h \in 1..NGT :
          (g # h /\ ~Eq(similarity(g, p), Zero))
              => ~Eq(similarity(g, p), similarity(h, p))

\* C20 (as stated): a matcher given the same ground truths and the same
\* predictions in another order matches the same set of box pairs.
C20_OrderInsignificant == ReorderedReturned => SameBoxPairs

\* C20 (amended): the same, for inputs in which no ground truth has the same
\* nonzero similarity to two predictions and no prediction has the same
\* nonzero similarity to two ground truths.
C20_OrderInsignificantNoTies ==
    (ReorderedReturned /\ NoTies) => SameBoxPairs

\* C20 witness: the second matcher got both lists in another order, has no
\* ties, and has returned after a displacement with two pairs matched.
C20_Witness ==
    /\ ReorderedReturned
    /\ NoTies
    /\ NGT = 2 /\ NDT = 2
    /\ ground_truths # package_boxes
    /\ predictions # label_boxes
    /\ Len(index_matches) = 2
    /\ index_matches[1][2] > index_matches[2][2]

\* Vocabulary of the termination claim.
MatchEnded == mpc \in {"done", "raised"}
InCompare == mpc \in {"cmp", "replace"}
Cells == (1..NGT) \X (1..NDT)
\* Row g of the grid has been written by store_metric in this call.
RowStored(g) == g < gti_loop \/ (g = gti_loop /\ mpc # "row")
\* Cell <<g, p>> was set to 0. by compare_matches.
Zeroed(g, p) ==
    /\ RowStored(g)
    /\ Eq(iou_grid[g][p], Zero)
    /\ ~Eq(similarity(g, p), Zero)
\* compare_matches calls itself in this step.
RecursiveCall == InCompare /\ mpc' = "cmp"
\* compare_matches returns to match() in this step.
PlainReturn == InCompare /\ mpc' \in {"row", "derive"}
ZeroesOneNonzeroCell ==
    \E c \in Cells :
        /\ ~Eq(iou_grid[c[1]][c[2]], Zero)
        /\ Eq(iou_grid'[c[1]][c[2]], Zero)
        /\ \A d \in Cells : d # c => iou_grid'[d[1]][d[2]] = iou_grid[d[1]][d[2]]
ZeroedStays ==
    \A c \in Cells :
        Zeroed(c[1], c[2]) =>
            /\ Eq(iou_grid'[c[1]][c[2]], Zero)
            /\ ~(mpc' = "cmp" /\ call'[1] = c[2] /\ call'[2] = c[1])

\* C21: match() ends; a recursive call of compare_matches comes with the
\* zeroing of exactly one nonzero grid cell, a call that returns without
\* recursing adds at most one match, and a zeroed cell stays zero and is not
\* the candidate of any later call.
C21_Terminates ==
    /\ <>MatchEnded
    /\ [][ /\ RecursiveCall => ZeroesOneNonzeroCell
           /\ PlainReturn => Len(index_matches') <= Len(index_matches) + 1
           /\ ZeroedStays ]_vars

\* C21 witness: match() has returned and a ground truth is matched to a
\* prediction other than its first candidate, which took a recursive call.
C21_Witness ==
    /\ Returned
    /\ \E m \in MatchSet :
          /\ m[1] # argmax([p \in 1..NDT |-> similarity(m[2], p)])
          /\ \E p \in 1..NDT : Zeroed(m[2], p)

\* Vocabulary of the claim about classify.
\* a and b have a common block of n >= 1 consecutive characters.
CommonBlock(a, b, n) ==
    /\ n >= 1
    /\ \E i \in 1..(Len(a) - n + 1), j \in 1..(Len(b) - n + 1) :
          SubSeq(a, i, i + n - 1) = SubSeq(b, j, j + n - 1)
\* The longest block that t has in common with x is longer than the one it
\* has in common with y.
LongerCommon(t, x, y) ==
    \E n \in 1..Len(x) : CommonBlock(t, x, n) /\ ~CommonBlock(t, y, n)
\* Key k is the first of the keys with the longest block in common with t.
FirstLongest(t, k) ==
    /\ CommonBlock(t, categories[k].key, 1)
    /\ \A l \in DOMAIN categories :
          /\ l < k => LongerCommon(t, categories[k].key, categories[l].key)
          /\ l > k => ~LongerCommon(t, categories[l].key, categories[k].key)
AtMostOnce(i) ==
    /\ Cardinality(CategoriesOf(i)) <= 1
    /\ \A k \in DOMAIN categories : Occurrences(i, categories[k].value) <= 1

\* C22: after classify has run on the categories registered by
\* categorize_by_longest_match, every text index is in at most one category,
\* once: the first key with the longest block of characters in common with
\* the lower-cased, space-stripped text; an index whose text has no
\* character in common with any key is in no category.
C22_Classify ==
    ppc = "classified" =>
        \A i \in DOMAIN texts :
            LET t == FoldedNoSpaces(texts[i])
            IN  /\ AtMostOnce(i)
                /\ \A k \in DOMAIN categories :
                      (k \in CategoriesOf(i)) <=> FirstLongest(t, k)

\* C22 witness: classify has run on three texts; the third has one character
\* in common with each of two keys and is in the first, the first two are
\* in their own categories.
C22_Witness ==
    /\ ppc = "classified"
    /\ texts = <<Word_abc, Word_xyz, Word_ax>>
    /\ Len(categories) = 2
    /\ categories[1].value = <<1, 3>>
    /\ categories[2].value = <<2>>

\* Vocabulary of the claims about the two metrics.
InUnitInterval(v) == ~Gt(Zero, v) /\ ~Gt(v, One)

\* C23: every value of the similarity grid is in [0, 1] at every point of
\* match(), with the metric "iou" and with the metric "centerpoint".
C23_SimilarityRange ==
    \A c \in Cells : InUnitInterval(iou_grid[c[1]][c[2]])

\* Vocabulary of the claim about the center distance.
\* Twice the center of a box, and the square of twice the distance between
\* the centers of two boxes.
TwiceCenter(box) == <<box[1] + box[3], box[2] + box[4]>>
TwiceCenterDistanceSq(a, b) ==
    (TwiceCenter(a)[1] - TwiceCenter(b)[1]) * (TwiceCenter(a)[1] - TwiceCenter(b)[1])
    + (TwiceCenter(a)[2] - TwiceCenter(b)[2]) * (TwiceCenter(a)[2] - TwiceCenter(b)[2])
DiagonalSq(box) ==
    (box[3] - box[1]) * (box[3] - box[1]) + (box[4] - box[2]) * (box[4] - box[2])
\* distance / min(diagonal(a), diagonal(b)) <= lf, for the distance between
\* the centers.
WithinLeniency(a, b, lf) ==
    TwiceCenterDistanceSq(a, b)
        <= 4 * lf * lf * Min2(DiagonalSq(a), DiagonalSq(b))
\* The fraction v is 1 - d for the distance d between the centers of a and
\* b, a coordinate being 1 / Unit.
IsOneMinusCenterDistance(v, a, b) ==
    /\ v[1] <= v[2]
    /\ 4 * Unit * Unit * (v[2] - v[1]) * (v[2] - v[1])
          = TwiceCenterDistanceSq(a, b) * v[2] * v[2]
StoresCenterDistance(v, a, b) ==
    IF WithinLeniency(a, b, leniency_factor)
    THEN IsOneMinusCenterDistance(v, a, b)
    ELSE Eq(v, Zero)

\* C24: with the metric "centerpoint" an iteration of match() on boxes of
\* nonzero diagonal stores, for every prediction, 1 - centerDistance:
\* centerDistance being the distance between the centers of the two boxes
\* when that distance divided by the smaller diagonal is at most
\* leniency_factor, and 1.0 in every other case.
C24_CenterDistance ==
    [][ (/\ mpc = "row"
         /\ metric = "centerpoint"
         /\ DiagonalSq(ground_truths[gti_loop]) > 0
         /\ \A p \in 1..NDT : DiagonalSq(predictions[p]) > 0) =>
            /\ mpc' = "cmp"
            /\ \A p \in 1..NDT :
                  StoresCenterDistance(iou_grid'[gti_loop][p],
                                       predictions[p],
                                       ground_truths[gti_loop]) ]_vars

FrameReturned == ppc = "returned"
\* The boxes as the detector tasks returned them.
DetectedPackageBoxes == ret["package"].boxes
DetectedLabelBoxes == ret["second"].boxes

\* C26: when process() returns, the package boxes and the text boxes have
\* the coordinates the detectors returned, and every box held by an entry of
\* the aggregation is one of the package boxes the detector returned.
C26_BoxesUnmodified ==
    FrameReturned =>
        /\ package_boxes = DetectedPackageBoxes
        /\ label_boxes = DetectedLabelBoxes
        /\ \A k \in DOMAIN collected_packages :
              \A n \in DOMAIN collected_packages[k].boxes :
                  InList(DetectedPackageBoxes, collected_packages[k].boxes[n])

\* Vocabulary of the claim about the order of the tasks.
Started(r) == thr[r] \in {"running", "finished"}
Completed(r) == thr[r] = "finished"
\* The caller is in, or past, the join of a detector task.
InDetectorJoin == ppc \in {"join_second", "join_package"}

\* C27: when process() joins a detector task both detector tasks have been
\* started, and the matcher task and the categorizer task exist only once
\* both detector tasks have completed.
C27_TaskOrder ==
    /\ InDetectorJoin => (Started("package") /\ Started("second"))
    /\ \A r \in {"match", "classifier"} :
          thr[r] # "none" => (Completed("package") /\ Completed("second"))

\* C27 witness: the matcher task and the categorizer task of a text frame
\* are running, after both detector tasks have completed and been joined.
C27_Witness ==
    /\ ~detect_code
    /\ thr["match"] = "running"
    /\ thr["classifier"] = "running"
    /\ Completed("package")
    /\ Completed("second")
    /\ ppc = "join_match"

\* Vocabulary of the claim about blocking pairs.
MatchedTo(p, g) == <<p, g>> \in MatchSet
\* p is held with a recorded score at least v.
HeldAtLeast(p, v) ==
    /\ \E h \in 1..NGT : MatchedTo(p, h)
    /\ ~Gt(v, iou_list[p])
\* g has a prediction whose similarity to g is at least v.
SettledAtLeast(g, v) ==
    \E q \in 1..NDT : MatchedTo(q, g) /\ ~Gt(v, similarity(g, q))

\* C28: when match() has returned with the iou metric, every ground truth g
\* and prediction p of similarity > 0 that are not matched to each other
\* have p matched with a recorded score >= similarity(g, p), or g matched to
\* a prediction at least as similar to g.
C28_NoBlockingPair ==
    Returned =>
        \A g \in 1..NGT : \A p \in 1..NDT :
            (Gt(similarity(g, p), Zero) /\ ~MatchedTo(p, g))
                => (HeldAtLeast(p, similarity(g, p))
                      \/ SettledAtLeast(g, similarity(g, p)))

\* C28 witness: match() has returned; a ground truth lost its best
\* prediction to a ground truth with a higher score and holds another, and
\* a third ground truth with a positive similarity holds none.
C28_Witness ==
    /\ Returned
    /\ \E g \in 1..NGT : \E p, q \in 1..NDT :
          /\ MatchedTo(q, g)
          /\ ~MatchedTo(p, g)
          /\ Gt(similarity(g, p), similarity(g, q))
          /\ HeldAtLeast(p, similarity(g, p))
    /\ \E g \in 1..NGT :
          /\ \A q \in 1..NDT : ~MatchedTo(q, g)
          /\ \E p \in 1..NDT : Gt(similarity(g, p), Zero)

\* Vocabulary of the claim about the predictions in the match set.
\* The ground truth p is paired with, 0 for none; inside the replacing
\* branch of compare_matches (lines 376-378) the pair of p is being
\* exchanged and p counts as paired with the ground truth it gives up.
Partner(p) ==
    IF mpc = "replace" /\ call[1] = p THEN pre_gti
    ELSE IF \E n \in DOMAIN index_matches : index_matches[n][1] = p
    THEN index_matches[CHOOSE n \in DOMAIN index_matches :
                          index_matches[n][1] = p][2]
    ELSE 0

Contributions(g, k) ==
    { n \in Counted : /\ index_matches[n][2] = g
                      /\ KeyOfPair(n) = collected_packages[k].label }

\* C30: in the list process_text_counts returns the labels are pairwise
\* distinct, every entry has a count >= 1 equal to the number of its boxes,
\* its boxes are those of the ground truths that contribute to it, and a
\* ground truth contributes to at most one entry, at most once.
C30_ReturnedList ==
    ppc = "counted" =>
        /\ \A k, l \in DOMAIN collected_packages :
              k # l => collected_packages[k].label # collected_packages[l].label
        /\ \A k \in DOMAIN collected_packages :
              /\ collected_packages[k].count >= 1
              /\ collected_packages[k].count = Len(collected_packages[k].boxes)
              /\ collected_packages[k].boxes
                    = BoxesOf(collected_packages[k].label)
        /\ \A g \in 1..NGT :
              /\ \A k, l \in DOMAIN collected_packages :
                    (Contributions(g, k) # {} /\ Contributions(g, l) # {})
                        => k = l
              /\ \A k \in DOMAIN collected_packages :
                    Cardinality(Contributions(g, k)) <= 1

\* C30 witness: a list of one entry that holds the boxes of two ground
\* truths whose texts fall in the same category.
C30_Witness ==
    /\ ppc = "counted"
    /\ Len(collected_packages) = 1
    /\ collected_packages[1].count = 2
    /\ Cardinality(Counted) = 2

====
